---- MODULE Spec2Model ----
(***************************************************************************)
(* Model of src/index.ts: the audio-clip synchronisation pipeline          *)
(* (downloadAudioclip and the functions it calls).                         *)
(*                                                                         *)
(* Conventions.  A JavaScript value that may be undefined/null is a        *)
(* sequence of length <= 1: <<>> is undefined, <<v>> is v.  A string whose *)
(* characters matter (id, title, filename) is a sequence of one-character  *)
(* strings.  A JSON document is the object with every undefined-valued     *)
(* property dropped (what JSON.stringify emits).                           *)
(***************************************************************************)
EXTENDS Integers, Sequences, FiniteSets, TLC

\* ------------------------------------------------------------------ bounds
MaxRecords == 2
MaxRuns == 2
MaxFormats == 3

\* ------------------------------------------------------- external inputs
\* Records the remote store may return (loadResourceFromDatabase maps every
\* document to {id, ...data}; the store is opaque, so ids are any strings).
\* RecA and RecB derive the same filename; RecA and RecC share a videoUrl;
\* RecD carries a URL that ytdl.getURLVideoID rejects.
RecA == [id |-> <<"1">>, title |-> <<"a">>, videoUrl |-> "u1",
         startTime |-> <<10>>, duration |-> <<5>>,
         description |-> <<"d">>, author |-> <<"x">>]
RecB == [id |-> <<"1", "/">>, title |-> <<"a">>, videoUrl |-> "u2",
         startTime |-> <<>>, duration |-> <<>>,
         description |-> <<>>, author |-> <<>>]
RecC == [id |-> <<"2">>, title |-> <<"b", "/">>, videoUrl |-> "u1",
         startTime |-> <<0>>, duration |-> <<>>,
         description |-> <<>>, author |-> <<"x">>]
RecD == [id |-> <<"3">>, title |-> <<"c">>, videoUrl |-> "bad",
         startTime |-> <<>>, duration |-> <<5>>,
         description |-> <<"d">>, author |-> <<>>]
RecordPool == {RecA, RecB, RecC, RecD}

RECURSIVE SeqsUpTo(_, _)
SeqsUpTo(S, n) ==
  IF n = 0 THEN {<<>>}
  ELSE LET shorter == SeqsUpTo(S, n - 1)
       IN  shorter \cup {Append(s, x) : s \in {t \in shorter : Len(t) = n - 1}, x \in S}

\* The store returns every document of the collection once (line 76).
NoRepeat(s) == \A m, n \in 1..Len(s) : m # n => s[m] # s[n]

RecordLists == {rs \in SeqsUpTo(RecordPool, MaxRecords) : NoRepeat(rs)}

\* Stream descriptors of the provider (info.formats): audioSampleRate is an
\* optional property; the sample rates are those of real audio streams.
SampleRates == {44100, 48000, 96000}
StreamUrls == {"s1", "s2"}
Formats == [hasAudio : BOOLEAN, audioSampleRate : {<<>>} \cup {<<r>> : r \in SampleRates},
            url : StreamUrls]

\* The provider's answers used inside a pipeline run (a subset of all format
\* lists, every resolution outcome represented).
PipelineFormats ==
  { <<[hasAudio |-> TRUE, audioSampleRate |-> <<44100>>, url |-> "s1"],
      [hasAudio |-> TRUE, audioSampleRate |-> <<48000>>, url |-> "s2"],
      [hasAudio |-> FALSE, audioSampleRate |-> <<96000>>, url |-> "s1"]>>,
    <<[hasAudio |-> TRUE, audioSampleRate |-> <<48000>>, url |-> "s1"]>>,
    <<[hasAudio |-> TRUE, audioSampleRate |-> <<>>, url |-> "s1"]>>,
    <<[hasAudio |-> FALSE, audioSampleRate |-> <<96000>>, url |-> "s2"]>> }

\* ------------------------------------------------------- pure functions
\* sanitize-filename with the default (empty) replacement: the characters
\* / ? < > \ : * | " are removed, then the name is cut to 255 bytes.  (Its
\* rules for control characters, reserved names and trailing dots/spaces
\* never apply to a name that ends in ".mp3" built from printable text.)
IllegalChars == {"/", "?", "<", ">", "\\", ":", "*", "|", "\""}

RECURSIVE RemoveIllegal(_)
RemoveIllegal(s) ==
  IF s = <<>> THEN <<>>
  ELSE IF Head(s) \in IllegalChars THEN RemoveIllegal(Tail(s))
       ELSE <<Head(s)>> \o RemoveIllegal(Tail(s))

sanitizeFilename(s) ==
  LET t == RemoveIllegal(s)
  IN  IF Len(t) > 255 THEN SubSeq(t, 1, 255) ELSE t

\* `${record.id}-${record.title}.mp3`, sanitized (line 178)
FilenameOf(record) ==
  sanitizeFilename(record.id \o <<"-">> \o record.title \o <<".", "m", "p", "3">>)

\* +(i.audioSampleRate || 0)
SampleRateOf(f) == IF f.audioSampleRate = <<>> THEN 0 ELSE f.audioSampleRate[1]

FilterNothing(formats) == formats

\* info.formats.filter((i) => i.hasAudio)
FilterHasAudio(formats) == SelectSeq(formats, LAMBDA f : f.hasAudio)

\* lodash maxBy (baseExtremum with baseGt): the first element whose key is
\* strictly greater than every earlier key; undefined for an empty array.
RECURSIVE BaseExtremum(_, _, _)
BaseExtremum(array, index, result) ==
  IF index > Len(array) THEN result
  ELSE IF result = <<>> \/ SampleRateOf(array[index]) > SampleRateOf(result[1])
       THEN BaseExtremum(array, index + 1, <<array[index]>>)
       ELSE BaseExtremum(array, index + 1, result)

maxBy(array) == BaseExtremum(array, 1, <<>>)

\* bestFormat of getVideoMeta (line 108)
BestFormat(formats) == maxBy(FilterHasAudio(formats))

\* ytdl.getURLVideoID(url) throws for a URL it cannot parse (line 100)
ValidUrl(url) == url # "bad"

\* info.videoDetails of the provider for a source URL
VideoDetails(url) == [videoId |-> url, video_url |-> <<"watch", url>>, title |-> <<"video", url>>]

\* A provider response: getInfo threw, or it returned info.formats.
Responses == {[threw |-> TRUE, formats |-> <<>>]} \cup
             {[threw |-> FALSE, formats |-> fs] : fs \in PipelineFormats}

getVideoMetaNoRateCheck(url, response) ==
  IF ~ValidUrl(url) \/ response.threw THEN <<>>
  ELSE LET bestFormat == BestFormat(response.formats)
       IN  IF bestFormat = <<>> THEN <<>>
           ELSE <<[id |-> VideoDetails(url).videoId,
                   url |-> VideoDetails(url).video_url,
                   title |-> VideoDetails(url).title,
                   source |-> [asr |-> SampleRateOf(bestFormat[1]),
                               url |-> bestFormat[1].url]]>>

\* getVideoMeta(url) given the provider's response (lines 98-127): null,
\* written <<>>, on any throw; fetchedAt is never read and is left out.
getVideoMeta(url, response) ==
  IF ~ValidUrl(url) \/ response.threw THEN <<>>
  ELSE LET bestFormat == BestFormat(response.formats)
       IN  IF bestFormat = <<>> \/ bestFormat[1].audioSampleRate = <<>> THEN <<>>
           ELSE <<[id |-> VideoDetails(url).videoId,
                   url |-> VideoDetails(url).video_url,
                   title |-> VideoDetails(url).title,
                   source |-> [asr |-> SampleRateOf(bestFormat[1]),
                               url |-> bestFormat[1].url]]>>

\* The encoder invocation built by downloadAndEncode (lines 137-147): -ss and
\* -t are passed when startTime / duration are truthy (undefined and the
\* number 0 are not).
Truthy(opt) == opt # <<>> /\ opt[1] # 0

downloadAndEncodeUnguarded(url, startTime, duration, output) ==
  [input |-> url, ss |-> startTime, t |-> duration, output |-> output]

downloadAndEncode(url, startTime, duration, output) ==
  [input |-> url,
   ss |-> IF Truthy(startTime) THEN startTime ELSE <<>>,
   t |-> IF Truthy(duration) THEN duration ELSE <<>>,
   output |-> output]

UUIDv4Fixed(r, recordId) == <<"uuid", 0, <<>>>>

\* UUIDv4(): a value no other call returns.  A call is named by the run and
\* the id of the record whose iteration makes it: an iteration calls UUIDv4 at
\* most once and a record list holds a record once.
UUIDv4(r, recordId) == <<"uuid", r, recordId>>

\* The ResourceMeta built at lines 193-207
NewMeta(uuid, record, filename, vm) ==
  [id |-> uuid, refId |-> record.id, title |-> record.title, filename |-> filename,
   description |-> record.description,
   source |-> [url |-> vm.url, startTime |-> record.startTime, title |-> record.title],
   contributor |-> [name |-> record.author]]

\* An object without properties, a Map without keys
EmptyMap == <<>>

\* Reading a property that may be missing from a parsed object
Prop(obj, key) == IF key \in DOMAIN obj THEN obj[key] ELSE <<>>

\* JSON.stringify emits one "key": value member for every property whose
\* value is not undefined; the text is modelled as the set of its members.
\* JSON.parse rebuilds an object that has exactly the members' keys.
Defined(obj, keys) == {k \in keys : Prop(obj, k) # <<>>}

Members(obj, keys) == {<<k, obj[k]>> : k \in Defined(obj, keys)}

FromMembers(text) == [k \in {m[1] : m \in text} |-> (CHOOSE m \in text : m[1] = k)[2]]

StringifyMeta(m) ==
  Members(m, {"id", "refId", "title", "filename", "description"})
    \cup {<<"source", Members(m.source, {"url", "title", "startTime"})>>,
          <<"contributor", Members(m.contributor, {"name"})>>}

ParseMeta(text) ==
  LET obj == FromMembers(text)
  IN  [obj EXCEPT !["source"] = FromMembers(@), !["contributor"] = FromMembers(@)]

\* JSON.stringify(metaFile) (line 214)
JSONstringify(index) ==
  {<<"v", index.v>>,
   <<"resources", {<<f, StringifyMeta(index.resources[f])>> : f \in DOMAIN index.resources}>>}

JSONparseFresh(text) == [v |-> 1, resources |-> EmptyMap]

\* JSON.parse(fs.readFileSync(metaFilePath)) (line 162)
JSONparse(text) ==
  LET obj == FromMembers(text)
      res == FromMembers(obj["resources"])
  IN  [v |-> obj["v"], resources |-> [f \in DOMAIN res |-> ParseMeta(res[f])]]

\* ----------------------------------------------------------------- state
VARIABLES
  pc,             \* control point of the process
  run,            \* number of the current process run
  exitCode,       \* <<>> while running, <<code>> after the process ended
  ffmpegPresent,  \* whether the installed encode tool (ffmpeg-static) can be executed
  records,        \* result of loadResourceFromDatabase
  i,              \* position of the for-of loop in records
  videoMeta,      \* local videoMeta of the current iteration (<<>> outside it)
  videoMetaCache, \* Map<string, IVideoMeta>
  metaFile,       \* in-memory IResourceIndex (<<>> before it is loaded)
  files,          \* output files present in the .temp directory
  metaDisk,       \* content of .temp/meta.json (<<>> when the file is absent)
  info,           \* the provider's response to the getVideoMeta call just made
  resolveLog,     \* history: getVideoMeta invocations of this run
  encodeLog,      \* history: encoder invocations of this run
  writeCount,     \* history: writes of meta.json in this run
  trace           \* history: what happened to each record of this run

vars == <<pc, run, exitCode, ffmpegPresent, records, i, videoMeta, videoMetaCache,
          metaFile, files, metaDisk, info, resolveLog, encodeLog,
          writeCount, trace>>

disk == <<files, metaDisk>>
history == <<resolveLog, encodeLog, writeCount, trace>>
locals == <<records, i, videoMeta, videoMetaCache, metaFile, info>>

\* A fresh process: nothing of the previous one survives but the disk.
FreshProcess ==
  /\ pc' = "startup"
  /\ exitCode' = <<>>
  /\ records' = <<>>
  /\ i' = 1
  /\ videoMeta' = <<>>
  /\ videoMetaCache' = EmptyMap
  /\ metaFile' = <<>>
  /\ info' = <<>>
  /\ resolveLog' = <<>>
  /\ encodeLog' = <<>>
  /\ writeCount' = 0
  /\ trace' = <<>>

Init ==
  /\ pc = "startup"
  /\ run = 1
  /\ exitCode = <<>>
  /\ ffmpegPresent \in BOOLEAN
  /\ records = <<>>
  /\ i = 1
  /\ videoMeta = <<>>
  /\ videoMetaCache = EmptyMap
  /\ metaFile = <<>>
  /\ files = {}
  /\ metaDisk = <<>>
  /\ info = <<>>
  /\ resolveLog = <<>>
  /\ encodeLog = <<>>
  /\ writeCount = 0
  /\ trace = <<>>

\* ---------------------------------------------------------------- actions
\* shell.exec(..., {silent: true}) of line 18: a synchronous call that returns
\* a result object carrying the exit code, whether the command ran or not.
ShellExec(present) == [code |-> IF present THEN 0 ELSE 127]

\* The ! of line 18 applied to that result: an object is never falsy.
NotResult(result) == FALSE

\* process.exit() without an argument (lines 20 and 28) ends the process
\* with the success status.
DefaultExitCode == 0

\* Module start-up (lines 16-29).  The ffmpeg guard of line 18 negates the
\* object shell.exec returns, so it does not end the process, whether the
\* tool is present or not; a missing secret or collection name (read from
\* the environment at each start) ends it through process.exit().
Startup ==
  /\ pc = "startup"
  /\ \E secret \in BOOLEAN, collection \in BOOLEAN :
       IF NotResult(ShellExec(ffmpegPresent)) \/ ~secret \/ ~collection
       THEN pc' = "exited" /\ exitCode' = <<DefaultExitCode>>
       ELSE pc' = "fetch" /\ exitCode' = exitCode
  /\ UNCHANGED <<run, ffmpegPresent, locals, disk, history>>

\* loadResourceFromDatabase resolves; lines 153-162 follow: the cache is
\* created and the index is read from meta.json or initialised.
FetchRecords ==
  /\ pc = "fetch"
  /\ \E rs \in RecordLists : records' = rs
  /\ videoMetaCache' = EmptyMap
  /\ metaFile' = IF metaDisk = <<>> THEN <<[v |-> 1, resources |-> EmptyMap]>>
                 ELSE <<JSONparse(metaDisk[1])>>
  /\ i' = 1
  /\ pc' = "loop"
  /\ UNCHANGED <<run, exitCode, ffmpegPresent, videoMeta, info, disk, history>>

FetchFailsThenWrites ==
  /\ pc = "fetch"
  /\ pc' = "failed"
  /\ exitCode' = <<0>>
  /\ metaDisk' = <<JSONstringify([v |-> 1, resources |-> EmptyMap])>>
  /\ UNCHANGED <<run, ffmpegPresent, locals, files, history>>

\* loadResourceFromDatabase rejects: downloadAudioclip rejects and
\* main().catch(console.error) logs it (line 234); the process ends.
FetchFails ==
  /\ pc = "fetch"
  /\ pc' = "failed"
  /\ exitCode' = <<0>>
  /\ UNCHANGED <<run, ffmpegPresent, locals, disk, history>>

RecordAtReversed(rs, k) == rs[Len(rs) + 1 - k]

\* for (const record of records) (line 164): the record of the k-th iteration
RecordAt(rs, k) == rs[k]

LoopExhaustedEarly(k, rs) == k >= Len(rs)

LoopExhausted(k, rs) == k > Len(rs)

TraceEntry(record, resolved, provider) ==
  [resolved |-> resolved, provider |-> provider,
   existed |-> FilenameOf(record) \in files,
   inIndex |-> FilenameOf(record) \in DOMAIN metaFile[1].resources,
   encoded |-> FALSE, written |-> FALSE, indexed |-> FALSE, uuid |-> <<>>]

CacheSetNever(cache, url, vm) == cache

CacheSetAlone(cache, url, vm) == (url :> vm)

\* The cache update of line 174
CacheSet(cache, url, vm) == IF url \in DOMAIN cache THEN cache ELSE (url :> vm) @@ cache

\* Lines 167-174 with a cache hit: getVideoMeta is not called.
ResolveCached ==
  /\ pc = "loop"
  /\ ~LoopExhausted(i, records)
  /\ LET record == RecordAt(records, i) IN
       /\ record.videoUrl \in DOMAIN videoMetaCache
       /\ videoMeta' = <<videoMetaCache[record.videoUrl]>>
       /\ videoMetaCache' = CacheSet(videoMetaCache, record.videoUrl, videoMetaCache[record.videoUrl])
       /\ trace' = Append(trace, TraceEntry(record, TRUE, FALSE))
  /\ info' = <<>>
  /\ pc' = "resolved"
  /\ UNCHANGED <<run, exitCode, ffmpegPresent, records, i, metaFile, disk, resolveLog, encodeLog, writeCount>>

BreakAt(k, rs) == Len(rs) + 1

\* continue (line 171): the loop goes on with the next record
ContinueAt(k, rs) == k + 1

\* Lines 167-174 with a cache miss: getVideoMeta is awaited; null skips the
\* record (continue), a VideoMeta is put into the cache.
ResolveCall ==
  /\ pc = "loop"
  /\ ~LoopExhausted(i, records)
  /\ LET record == RecordAt(records, i) IN
       /\ record.videoUrl \notin DOMAIN videoMetaCache
       /\ \E response \in Responses :
            LET vm == getVideoMeta(record.videoUrl, response) IN
              /\ info' = <<response>>
              /\ resolveLog' = Append(resolveLog, [url |-> record.videoUrl, ok |-> vm # <<>>])
              /\ videoMeta' = vm
              /\ trace' = Append(trace, TraceEntry(record, vm # <<>>, TRUE))
              /\ IF vm = <<>>
                 THEN /\ i' = ContinueAt(i, records)
                      /\ pc' = "loop"
                      /\ videoMetaCache' = videoMetaCache
                 ELSE /\ i' = i
                      /\ pc' = "resolved"
                      /\ videoMetaCache' = CacheSet(videoMetaCache, record.videoUrl, vm[1])
  /\ UNCHANGED <<run, exitCode, ffmpegPresent, records, metaFile, disk,
                 encodeLog, writeCount>>

ShouldSkipNever(filename, fs, index) == FALSE

ShouldSkipIndexed(filename, fs, index) == filename \in fs \/ filename \in DOMAIN index.resources

ShouldSkipWhenIndexed(filename, fs, index) == filename \in fs /\ filename \in DOMAIN index.resources

\* fs.existsSync(savePath) of line 180
ShouldSkip(filename, fs, index) == filename \in fs

\* Lines 178-183: the output file exists, the record is skipped.
SkipExisting ==
  /\ pc = "resolved"
  /\ ShouldSkip(FilenameOf(RecordAt(records, i)), files, metaFile[1])
  /\ i' = i + 1
  /\ videoMeta' = <<>>
  /\ info' = <<>>
  /\ pc' = "loop"
  /\ UNCHANGED <<run, exitCode, ffmpegPresent, records, videoMetaCache,
                 metaFile, disk, history>>

InsertIfProduced(produced) == produced

\* Whether the index entry is stored after an encoder run (line 209 is
\* reached whatever shell.exec returned).
InsertAfterEncode(produced) == TRUE

\* metaFile.resources[filename] = meta (line 209)
IndexPut(index, filename, meta) ==
  [index EXCEPT !.resources = (filename :> meta) @@ index.resources]

\* Lines 178-211: the encoder runs (synchronously) and, whatever its
\* outcome, the ResourceMeta is stored under the filename.  The encoder
\* writes the output file or fails without one; it fails when the tool is
\* missing.
EncodeAndIndex ==
  /\ pc = "resolved"
  /\ LET record == RecordAt(records, i)
         filename == FilenameOf(record)
         vm == videoMeta[1]
     IN
       /\ ~ShouldSkip(filename, files, metaFile[1])
       /\ \E produced \in BOOLEAN :
            /\ produced => ffmpegPresent
            /\ encodeLog' = Append(encodeLog,
                 downloadAndEncode(vm.source.url, record.startTime, record.duration, filename))
            /\ files' = IF produced THEN files \cup {filename} ELSE files
            /\ IF InsertAfterEncode(produced)
               THEN /\ metaFile' = <<IndexPut(metaFile[1], filename,
                                              NewMeta(UUIDv4(run, record.id), record, filename, vm))>>
               ELSE /\ metaFile' = metaFile
            /\ trace' = [trace EXCEPT ![i] = [@ EXCEPT !.encoded = TRUE,
                                                        !.written = produced,
                                                        !.indexed = InsertAfterEncode(produced),
                                                        !.uuid = IF InsertAfterEncode(produced)
                                                                 THEN <<UUIDv4(run, record.id)>>
                                                                 ELSE <<>>]]
  /\ i' = i + 1
  /\ videoMeta' = <<>>
  /\ info' = <<>>
  /\ pc' = "loop"
  /\ UNCHANGED <<run, exitCode, ffmpegPresent, records, videoMetaCache,
                 metaDisk, resolveLog, writeCount>>

\* Lines 214-215: after the loop the index is written to meta.json.
WriteMetaFile ==
  /\ pc = "loop"
  /\ LoopExhausted(i, records)
  /\ metaDisk' = <<JSONstringify(metaFile[1])>>
  /\ writeCount' = writeCount + 1
  /\ info' = <<>>
  /\ pc' = "done"
  /\ exitCode' = <<0>>
  /\ UNCHANGED <<run, ffmpegPresent, records, i, videoMeta, videoMetaCache, metaFile,
                 files, resolveLog, encodeLog, trace>>

\* The program is started again after the previous process ended.
NextRun ==
  /\ pc \in {"done", "exited", "failed"}
  /\ run < MaxRuns
  /\ run' = run + 1
  /\ FreshProcess
  /\ UNCHANGED <<ffmpegPresent, disk>>

\* The process is killed between two steps and started again: the disk is
\* all that survives.
Interrupt ==
  /\ pc \in {"fetch", "loop", "resolved"}
  /\ run < MaxRuns
  /\ run' = run + 1
  /\ FreshProcess
  /\ UNCHANGED <<ffmpegPresent, disk>>

Next ==
  \/ Startup
  \/ FetchRecords
  \/ FetchFails
  \/ ResolveCached
  \/ ResolveCall
  \/ SkipExisting
  \/ EncodeAndIndex
  \/ WriteMetaFile
  \/ NextRun
  \/ Interrupt

Spec == Init /\ [][Next]_vars

\* The steps of one process.  downloadAudioclip is a single sequential flow:
\* each step follows the previous one as soon as the call it awaits (the
\* record fetch, getVideoMeta) or runs synchronously (shell.exec, the file
\* writes) has returned.
RunStep ==
  \/ Startup
  \/ FetchRecords
  \/ FetchFails
  \/ ResolveCached
  \/ ResolveCall
  \/ SkipExisting
  \/ EncodeAndIndex
  \/ WriteMetaFile

\* One process that is not killed and in which every awaited call returns.
LiveSpec == Init /\ [][RunStep]_vars /\ WF_vars(RunStep)

\* ------------------------------------------------- stream selection alone
\* getVideoMeta applied to every list of at most MaxFormats stream
\* descriptors, for a URL the provider accepts.
FormatLists == SeqsUpTo(Formats, MaxFormats)

SelInit ==
  /\ pc = "select"
  /\ info \in {<<[threw |-> FALSE, formats |-> fs]>> : fs \in FormatLists}
  /\ run = 1
  /\ exitCode = <<>>
  /\ ffmpegPresent = TRUE
  /\ records = <<>>
  /\ i = 1
  /\ videoMeta = <<>>
  /\ videoMetaCache = EmptyMap
  /\ metaFile = <<>>
  /\ files = {}
  /\ metaDisk = <<>>
  /\ resolveLog = <<>>
  /\ encodeLog = <<>>
  /\ writeCount = 0
  /\ trace = <<>>

SelResolve ==
  /\ pc = "select"
  /\ videoMeta' = getVideoMeta("u1", info[1])
  /\ pc' = "selected"
  /\ UNCHANGED <<run, exitCode, ffmpegPresent, records, i, videoMetaCache, metaFile,
                 info, disk, history>>

SelNext == SelResolve

SpecSelect == SelInit /\ [][SelNext]_vars

\* ------------------------------------------------------------ properties
Resources == metaFile[1].resources

Processed == 1..Len(trace)

\* C1: a record that resolves and whose output file does not exist when it is
\* reached leaves exactly one new file at its path and exactly one new index
\* entry, keyed by the filename, whose refId is the record's id - whatever
\* the encoder did.
C1_OneFileOneEntry ==
  [][(pc = "resolved" /\ pc' = "loop" /\ FilenameOf(records[i]) \notin files) =>
        LET fn == FilenameOf(records[i]) IN
          /\ files' = files \cup {fn}
          /\ DOMAIN metaFile'[1].resources \ DOMAIN Resources = {fn}
          /\ metaFile'[1].resources[fn].refId = records[i].id]_vars

\* C7: every index entry inserted during the run has its output file on disk.
C7_InsertedHasFile ==
  \A k \in Processed : trace[k].indexed => FilenameOf(records[k]) \in files

\* C3 as stated: getVideoMeta is invoked at most once per source URL in a
\* run, failed resolutions included.
C3_AtMostOncePerUrl ==
  \A p, q \in 1..Len(resolveLog) : p # q => resolveLog[p].url # resolveLog[q].url

\* C3 amended: getVideoMeta is never invoked for a URL after it succeeded for
\* that URL in the run (so a URL resolves successfully at most once); only
\* failed resolutions are repeated.
C3_NoCallAfterSuccess ==
  \A p, q \in 1..Len(resolveLog) :
     (p < q /\ resolveLog[p].url = resolveLog[q].url) => ~resolveLog[p].ok

\* two records with one URL: the first resolved by the provider, the second
\* served from the cache
C3_Witness ==
  \E j, k \in Processed :
     /\ j < k
     /\ records[j].videoUrl = records[k].videoUrl
     /\ trace[j].resolved /\ trace[j].provider
     /\ trace[k].resolved /\ ~trace[k].provider

Entry(index, filename) ==
  IF filename \in DOMAIN index.resources THEN <<index.resources[filename]>> ELSE <<>>

\* C2: while the current record's output file exists, no step of the run
\* invokes the encoder, creates or overwrites a file, or changes the index
\* entry of that filename.
C2_ExistingFileUntouched ==
  [][(pc \in {"loop", "resolved"} /\ i <= Len(records) /\ run' = run
        /\ FilenameOf(records[i]) \in files) =>
       /\ encodeLog' = encodeLog
       /\ files' = files
       /\ Entry(metaFile'[1], FilenameOf(records[i])) = Entry(metaFile[1], FilenameOf(records[i]))]_vars

\* a record that resolved was skipped because its file existed
C2_Witness ==
  \E k \in Processed : k < i /\ trace[k].resolved /\ trace[k].existed /\ ~trace[k].encoded

\* C4 as stated: of two records with one filename the second is never
\* encoded, and at the end of the run an index entry made for that filename
\* in the run is the first one's.
C4_SecondAlwaysSkipped ==
  \A j, k \in Processed :
     (j < k /\ FilenameOf(records[j]) = FilenameOf(records[k])) =>
        /\ ~trace[k].encoded
        /\ (pc = "done" /\ FilenameOf(records[j]) \in DOMAIN Resources /\ ~trace[j].inIndex) =>
             Resources[FilenameOf(records[j])].refId = records[j].id

\* C4 amended: when the first record's encode produced the output file, the
\* second is not encoded and the index entry stays the first one's.
C4_SecondSkippedAfterWrite ==
  \A j, k \in Processed :
     (j < k /\ FilenameOf(records[j]) = FilenameOf(records[k]) /\ trace[j].written) =>
        /\ ~trace[k].encoded
        /\ FilenameOf(records[j]) \in DOMAIN Resources
        /\ Resources[FilenameOf(records[j])].refId = records[j].id
        /\ Resources[FilenameOf(records[j])].title = records[j].title

\* a finished run in which a record with another id met the file its
\* predecessor had just produced
C4_Witness ==
  /\ pc = "done"
  /\ \E j, k \in Processed :
        /\ j < k
        /\ FilenameOf(records[j]) = FilenameOf(records[k])
        /\ records[j].id # records[k].id
        /\ trace[j].written
        /\ trace[k].resolved

\* C5 as stated: a record whose filename is an index key causes neither a
\* getVideoMeta call nor an encoder call.
C5_IndexKeySkipsAll ==
  \A k \in Processed : trace[k].inIndex => ~trace[k].provider /\ ~trace[k].encoded

\* C5 amended: a record whose filename is an index key is resolved like any
\* other (by the provider or from the cache) and is encoded exactly when the
\* resolution succeeded and the output file was absent.
C5_IndexKeyNotConsulted ==
  \A k \in Processed :
     (k < i /\ trace[k].inIndex) =>
        /\ trace[k].provider \/ trace[k].resolved
        /\ trace[k].encoded <=> (trace[k].resolved /\ ~trace[k].existed)

\* a record whose filename was an index key, with no file, was encoded again
C5_Witness ==
  \E k \in Processed : trace[k].inIndex /\ ~trace[k].existed /\ trace[k].encoded

\* C6: no step of a run removes an index key or changes the ResourceMeta
\* stored under a key.
C6_AppendOnly ==
  [][(metaFile # <<>> /\ metaFile' # <<>>) =>
       \A f \in DOMAIN Resources :
          /\ f \in DOMAIN metaFile'[1].resources
          /\ metaFile'[1].resources[f] = Resources[f]]_vars

\* The resolution failures C8 is about, read off the provider's
\* response: URL not parseable, the provider call throws, or no stream that
\* carries audio reports a sample rate.
ResolutionFails(url, response) ==
  \/ ~ValidUrl(url)
  \/ response.threw
  \/ \A n \in 1..Len(response.formats) :
        response.formats[n].hasAudio => response.formats[n].audioSampleRate = <<>>

\* C8: a failed resolution skips the record: no encoder call, no file, index
\* and cache unchanged, and the loop is at the next record.
C8_FailedResolutionSkips ==
  [][(/\ pc = "loop" /\ i <= Len(records) /\ run' = run
      /\ records[i].videoUrl \notin DOMAIN videoMetaCache
      /\ info' # <<>>
      /\ ResolutionFails(records[i].videoUrl, info'[1])) =>
       /\ encodeLog' = encodeLog
       /\ files' = files
       /\ metaFile' = metaFile
       /\ videoMetaCache' = videoMetaCache
       /\ i' = i + 1
       /\ pc' = "loop"]_vars

\* a record failed to resolve and the loop went on to a later record
C8_Witness ==
  \E k \in Processed : ~trace[k].resolved /\ k < Len(trace)

\* C9: the resolver fails exactly when no audio-carrying stream reports a
\* sample rate; otherwise the selected stream carries audio and its rate is
\* the maximum over the audio-carrying streams.
C9_SelectsMaxAudioRate ==
  pc = "selected" =>
    LET fs == info[1].formats
        rated == {n \in 1..Len(fs) : fs[n].hasAudio /\ fs[n].audioSampleRate # <<>>}
    IN  /\ (videoMeta = <<>>) <=> (rated = {})
        /\ videoMeta # <<>> =>
             /\ \E n \in rated : /\ fs[n].url = videoMeta[1].source.url
                                 /\ fs[n].audioSampleRate[1] = videoMeta[1].source.asr
             /\ \A m \in rated : fs[m].audioSampleRate[1] <= videoMeta[1].source.asr

\* the example of the specification: 44100 and 48000 with audio, 96000
\* without; 48000 is selected
C9_Witness ==
  /\ pc = "selected"
  /\ \E u1, u2, u3 \in StreamUrls :
        info[1].formats = <<[hasAudio |-> TRUE, audioSampleRate |-> <<44100>>, url |-> u1],
                            [hasAudio |-> TRUE, audioSampleRate |-> <<48000>>, url |-> u2],
                            [hasAudio |-> FALSE, audioSampleRate |-> <<96000>>, url |-> u3]>>
  /\ videoMeta # <<>>
  /\ videoMeta[1].source.asr = 48000

\* C10: meta.json is written once per completed run, after every record has
\* reached its outcome, and not before.
C10_WrittenOnceAtEnd ==
  /\ pc = "done" =>
       /\ writeCount = 1
       /\ Len(trace) = Len(records)
       /\ \A k \in Processed : ~trace[k].resolved \/ trace[k].existed \/ trace[k].indexed
  /\ pc # "done" => writeCount = 0

\* a completed run in which every record was skipped
C10_Witness ==
  /\ pc = "done"
  /\ Len(records) > 0
  /\ \A k \in Processed : ~trace[k].indexed
  /\ writeCount = 1

\* C11: the records are processed one at a time in the order of the fetched
\* list: nothing is logged, written or indexed before the list is fetched;
\* every step acts on the record at the loop position and on no other; the
\* position never goes back, so every step of a record precedes every step
\* of a later one.
C11_InSourceOrder ==
  [][/\ pc \in {"startup", "fetch"} =>
          trace = <<>> /\ resolveLog = <<>> /\ encodeLog = <<>> /\ records = <<>>
     /\ (run' = run /\ pc \in {"loop", "resolved"}) => (records' = records /\ i' \in {i, i + 1})
     /\ (/\ run' = run
         /\ \/ trace' # trace \/ resolveLog' # resolveLog \/ encodeLog' # encodeLog
            \/ files' # files \/ (metaFile # <<>> /\ metaFile' # metaFile)) =>
          /\ pc \in {"loop", "resolved"}
          /\ i <= Len(records)
          /\ Len(trace) \in {i - 1, i}
          /\ Len(trace') = i
          /\ \A k \in 1..Len(trace) : k # i => trace'[k] = trace[k]
          /\ trace'[i].existed = (FilenameOf(records[i]) \in files)
          /\ resolveLog' # resolveLog =>
                resolveLog' = Append(resolveLog, [url |-> records[i].videoUrl,
                                                  ok |-> trace'[i].resolved])
          /\ encodeLog' # encodeLog =>
                /\ Len(encodeLog') = Len(encodeLog) + 1
                /\ SubSeq(encodeLog', 1, Len(encodeLog)) = encodeLog
                /\ encodeLog'[Len(encodeLog')].output = FilenameOf(records[i])
          /\ files' \ files \subseteq {FilenameOf(records[i])}
          /\ \A f \in DOMAIN metaFile'[1].resources :
                f # FilenameOf(records[i]) =>
                   f \in DOMAIN Resources /\ metaFile'[1].resources[f] = Resources[f]]_vars

\* two records, each resolved by the provider and encoded, the second after
\* the first
C11_Witness ==
  /\ Len(trace) = 2
  /\ records[1].videoUrl # records[2].videoUrl
  /\ trace[1].provider /\ trace[1].encoded
  /\ trace[2].provider /\ trace[2].encoded

\* C12: when the encode tool is missing, or the store secret or the
\* collection name is absent, the process ends with a non-zero exit status
\* before the record source is queried: a process that has left start-up
\* without the tool has ended, and a process ended at start-up has a
\* non-zero status.
C12_BlockersExitNonZero ==
  /\ (pc # "startup" /\ ~ffmpegPresent) => pc = "exited"
  /\ pc = "exited" => (exitCode # <<>> /\ exitCode[1] # 0)

\* What reading each property of a ResourceMeta yields (undefined for a
\* property that is missing or holds undefined)
MetaReads(m) ==
  [id |-> Prop(m, "id"), refId |-> Prop(m, "refId"), title |-> Prop(m, "title"),
   filename |-> Prop(m, "filename"), description |-> Prop(m, "description"),
   source |-> [url |-> Prop(m.source, "url"), title |-> Prop(m.source, "title"),
               startTime |-> Prop(m.source, "startTime")],
   contributor |-> [name |-> Prop(m.contributor, "name")]]

SameIndex(x, y) ==
  /\ x.v = y.v
  /\ DOMAIN x.resources = DOMAIN y.resources
  /\ \A f \in DOMAIN x.resources : MetaReads(x.resources[f]) = MetaReads(y.resources[f])

\* The resources member of a meta.json text, as a function from filename to
\* the text of the entry
DiskResources(text) == FromMembers(FromMembers(text)["resources"])

InsertedInRun(f) == \E k \in Processed : trace[k].indexed /\ FilenameOf(records[k]) = f

\* C13: the index survives the write at the end of one run and the load at
\* the start of the next: the load yields {v: 1, resources: {}} when there is
\* no meta.json and otherwise an index whose serialisation is the file it
\* was read from; the index parsed back from a written file reads the same,
\* key by key and property by property, as the index that was written; and
\* an entry of the old file under which the run inserted nothing is in the
\* new file unchanged.
C13_IndexRoundTrip ==
  [][/\ (pc = "fetch" /\ pc' = "loop") =>
          IF metaDisk = <<>>
          THEN metaFile'[1] = [v |-> 1, resources |-> <<>>]
          ELSE /\ JSONstringify(metaFile'[1]) = metaDisk[1]
               /\ metaFile'[1].v = FromMembers(metaDisk[1])["v"]
               /\ DOMAIN metaFile'[1].resources = DOMAIN DiskResources(metaDisk[1])
     /\ (pc = "loop" /\ pc' = "done") =>
          /\ SameIndex(JSONparse(metaDisk'[1]), metaFile[1])
          /\ metaDisk # <<>> =>
               \A f \in DOMAIN DiskResources(metaDisk[1]) :
                  ~InsertedInRun(f) =>
                     /\ f \in DOMAIN DiskResources(metaDisk'[1])
                     /\ DiskResources(metaDisk'[1])[f] = DiskResources(metaDisk[1])[f]]_vars

\* the file written by a second run holds an entry of the first run, one
\* without description, next to an entry the second run added
C13_Witness ==
  /\ pc = "done"
  /\ run = 2
  /\ \E f, g \in DOMAIN JSONparse(metaDisk[1]).resources :
        LET old == JSONparse(metaDisk[1]).resources[f]
            new == JSONparse(metaDisk[1]).resources[g]
        IN  /\ old.id[2] = 1
            /\ "description" \notin DOMAIN old
            /\ new.id[2] = 2
            /\ InsertedInRun(g)

\* The encoder invocation made by the step, if the step makes one
Encodes == run' = run /\ encodeLog' # encodeLog

Invocation == encodeLog'[Len(encodeLog')]

\* C14 as stated: the encoder's input is the stream URL of the VideoMeta
\* cached for the record's URL, its output the record's filename; -ss is
\* passed exactly when the record has a startTime, -t exactly when it has a
\* duration, each with the record's value.
C14_ArgsFromRecord ==
  [][Encodes =>
       /\ records[i].videoUrl \in DOMAIN videoMetaCache
       /\ Invocation.input = videoMetaCache[records[i].videoUrl].source.url
       /\ Invocation.output = FilenameOf(records[i])
       /\ Invocation.ss = records[i].startTime
       /\ Invocation.t = records[i].duration]_vars

\* C14 amended: as stated, but -ss / -t are passed exactly when the record's
\* startTime / duration is truthy: present and not 0.
C14_ArgsWhenTruthy ==
  [][Encodes =>
       LET record == records[i]
           hasStart == record.startTime # <<>> /\ record.startTime[1] # 0
           hasDuration == record.duration # <<>> /\ record.duration[1] # 0
       IN  /\ record.videoUrl \in DOMAIN videoMetaCache
           /\ Invocation.input = videoMetaCache[record.videoUrl].source.url
           /\ Invocation.input = videoMeta[1].source.url
           /\ Invocation.output = FilenameOf(record)
           /\ Invocation.ss = (IF hasStart THEN record.startTime ELSE <<>>)
           /\ Invocation.t = (IF hasDuration THEN record.duration ELSE <<>>)]_vars

\* one run encoded a record with startTime 10 and duration 5, passing both,
\* and a record with startTime 0, passing no -ss
C14_Witness ==
  \E j, k \in Processed :
     /\ trace[j].encoded /\ trace[k].encoded
     /\ records[j].startTime = <<10>> /\ records[k].startTime = <<0>>
     /\ \E p, q \in 1..Len(encodeLog) :
          /\ encodeLog[p].output = FilenameOf(records[j])
          /\ encodeLog[p].ss = <<10>> /\ encodeLog[p].t = <<5>>
          /\ encodeLog[q].output = FilenameOf(records[k])
          /\ encodeLog[q].ss = <<>>

\* C15: a record for which the encoder is invoked gets its index entry,
\* keyed by the filename and carrying the record's id as refId, in the same
\* iteration whether or not the encoder produced the file; the encoder is
\* invoked once and the loop moves to the next record.
C15_IndexedWhateverEncoderDid ==
  [][Encodes =>
       LET fn == FilenameOf(records[i]) IN
         /\ Len(encodeLog') = Len(encodeLog) + 1
         /\ fn \in DOMAIN metaFile'[1].resources
         /\ metaFile'[1].resources[fn].refId = records[i].id
         /\ metaFile'[1].resources[fn].filename = fn
         /\ trace'[i].indexed
         /\ i' = i + 1
         /\ pc' = "loop"]_vars

\* the encoder produced no file for a record and the record is in the index
C15_Witness ==
  \E k \in Processed :
     /\ trace[k].encoded /\ ~trace[k].written /\ trace[k].indexed
     /\ FilenameOf(records[k]) \notin files
     /\ FilenameOf(records[k]) \in DOMAIN Resources
     /\ Resources[FilenameOf(records[k])].refId = records[k].id

\* The filenames that have an entry in meta.json
DiskKeys == IF metaDisk = <<>> THEN {} ELSE DOMAIN DiskResources(metaDisk[1])

\* A file on disk that has an index entry neither in meta.json nor in the
\* memory of the running process: what a run leaves that was interrupted
\* after the encoder wrote the file and before the index was written
Orphan(f) ==
  /\ f \in files
  /\ f \notin DiskKeys
  /\ metaFile = <<>> \/ f \notin DOMAIN Resources

\* C16: the end of a process that leaves a file without an entry in
\* meta.json leaves it so for good: in every later run a record with that
\* filename that resolves is skipped at the existence check, no step encodes
\* to the file or gives it an index entry, and the meta.json the run writes
\* has no entry for it.
C16_OrphanNeverIndexed ==
  [][\A f \in files :
        /\ (run' # run /\ f \notin DiskKeys) => Orphan(f)'
        /\ Orphan(f) =>
             /\ Orphan(f)'
             /\ Encodes => Invocation.output # f
             /\ (run' = run /\ pc = "resolved" /\ FilenameOf(records[i]) = f) =>
                  (pc' = "loop" /\ i' = i + 1 /\ trace'[i] = trace[i])]_vars

\* a second run has finished: a record that resolved met its file, which had
\* no index entry, and the meta.json written has no entry for it
C16_Witness ==
  /\ pc = "done"
  /\ run = 2
  /\ \E k \in Processed :
        /\ trace[k].resolved /\ trace[k].existed /\ ~trace[k].inIndex
        /\ ~trace[k].encoded
        /\ Orphan(FilenameOf(records[k]))

\* The outcomes a record has reached
OutcomesOf(k) ==
  {o \in {"skipped-resolution", "skipped-present", "index-update"} :
     \/ o = "skipped-resolution" /\ ~trace[k].resolved
     \/ o = "skipped-present" /\ trace[k].resolved /\ trace[k].existed /\ ~trace[k].encoded
     \/ o = "index-update" /\ trace[k].encoded /\ trace[k].indexed}

RunComplete ==
  /\ pc = "done"
  /\ writeCount = 1
  /\ Len(trace) = Len(records)
  /\ \A k \in 1..Len(records) : Cardinality(OutcomesOf(k)) = 1

\* C17: a run that has fetched its records and is not killed terminates:
\* it reaches the end with every fetched record at exactly one of the three
\* outcomes, whatever failed on earlier records, and with the index written.
C17_RunTerminates ==
  /\ [](pc = "done" => RunComplete)
  /\ (pc = "loop") ~> (pc = "done")

\* a run is complete in which a record failed to resolve and a later one
\* was encoded and indexed
C17_Witness ==
  /\ RunComplete
  /\ \E j, k \in Processed : j < k /\ ~trace[j].resolved /\ trace[k].indexed

\* C18: the cache gets a key only by a successful getVideoMeta call for the
\* URL of the current record, keeps every key with the value first stored,
\* and is what each encoder invocation takes its input from: records that
\* share a URL are encoded from one stream URL.
C18_CacheStable ==
  [][(run' = run /\ pc \in {"loop", "resolved"}) =>
       /\ \A u \in DOMAIN videoMetaCache :
             u \in DOMAIN videoMetaCache' /\ videoMetaCache'[u] = videoMetaCache[u]
       /\ \A u \in DOMAIN videoMetaCache' \ DOMAIN videoMetaCache :
             /\ pc = "loop"
             /\ u = records[i].videoUrl
             /\ resolveLog' = Append(resolveLog, [url |-> u, ok |-> TRUE])
             /\ ~ResolutionFails(u, info'[1])
             /\ videoMetaCache'[u].source.url \in
                  {info'[1].formats[n].url : n \in 1..Len(info'[1].formats)}
       /\ (resolveLog' # resolveLog /\ ~resolveLog'[Len(resolveLog')].ok) =>
             videoMetaCache' = videoMetaCache
       /\ Encodes =>
             /\ records[i].videoUrl \in DOMAIN videoMetaCache
             /\ Invocation.input = videoMetaCache[records[i].videoUrl].source.url]_vars

\* two records with one URL were both encoded, the second from the cached
\* VideoMeta, with the same encoder input
C18_Witness ==
  \E j, k \in Processed :
     /\ j < k
     /\ records[j].videoUrl = records[k].videoUrl
     /\ trace[j].provider /\ trace[j].encoded
     /\ ~trace[k].provider /\ trace[k].encoded
     /\ Len(encodeLog) >= 2
     /\ \A p, q \in 1..Len(encodeLog) : encodeLog[p].input = encodeLog[q].input

\* C19: a run whose record fetch fails ends there: the failure comes before
\* any record is taken up, it leaves the output files and meta.json as they
\* were, no resolver or encoder call has been made, and the process does
\* nothing more.
C19_FetchFailureTouchesNothing ==
  [][/\ (run' = run /\ pc' = "failed" /\ pc # "failed") =>
          /\ pc = "fetch"
          /\ files' = files
          /\ metaDisk' = metaDisk
          /\ records' = <<>> /\ trace' = <<>>
          /\ resolveLog' = <<>> /\ encodeLog' = <<>>
          /\ writeCount' = 0
     /\ pc = "failed" => (run' = run + 1 /\ pc' = "startup" /\ files' = files /\ metaDisk' = metaDisk)]_vars

\* the fetch of a second run failed; the meta.json and the file that the
\* first run wrote are there
C19_Witness ==
  /\ pc = "failed"
  /\ run = 2
  /\ metaDisk # <<>>
  /\ files # {}
  /\ resolveLog = <<>> /\ encodeLog = <<>> /\ writeCount = 0

NotIllegal(c) == c \notin IllegalChars

\* C20: the entry an iteration inserts is stored under its own filename
\* field, which is '<id>-<title>.mp3' of the record its refId names with the
\* illegal characters removed; its id is new: no entry of the index has it
\* and no entry inserted earlier in the run had it.
C20_EntryWellFormed ==
  [][Encodes =>
       LET record == records[i]
           raw == record.id \o <<"-">> \o record.title \o <<".", "m", "p", "3">>
           fn == SelectSeq(raw, NotIllegal)
       IN  /\ DOMAIN metaFile'[1].resources = DOMAIN Resources \cup {fn}
           /\ metaFile'[1].resources[fn].filename = fn
           /\ metaFile'[1].resources[fn].refId = record.id
           /\ \A f \in DOMAIN Resources : Resources[f].id # metaFile'[1].resources[fn].id
           /\ trace'[i].uuid = <<metaFile'[1].resources[fn].id>>
           /\ \A k \in 1..(i - 1) : trace[k].uuid # trace'[i].uuid]_vars

\* a run inserted two entries under different filenames, one of a record
\* whose title holds an illegal character; both are in the index with
\* different ids
C20_Witness ==
  \E j, k \in Processed :
     /\ j < k
     /\ trace[j].indexed /\ trace[k].indexed
     /\ FilenameOf(records[j]) # FilenameOf(records[k])
     /\ \E n \in 1..Len(records[k].title) : records[k].title[n] \in IllegalChars
     /\ Resources[FilenameOf(records[j])].id = trace[j].uuid[1]
     /\ Resources[FilenameOf(records[k])].id = trace[k].uuid[1]
     /\ trace[j].uuid # trace[k].uuid

====
